---- MODULE Spec2Model ----
(***************************************************************************)
(* Burst analysis pipeline of eki-study: burstAnalysis.py (measure         *)
(* extraction, empirical CDFs), interface.py (CDF averaging, quantile      *)
(* functions) and main.py (the batch script).                              *)
(*                                                                         *)
(* Numbers.  A float64 value is modelled as an exact fraction <<n, d>>     *)
(* in lowest terms with d > 0; the IEEE special values that numpy          *)
(* produces instead of raising are <<1, 0>> (inf), <<-1, 0>> (-inf) and    *)
(* <<0, 0>> (nan).  A numpy array is a sequence of such values.            *)
(***************************************************************************)
EXTENDS Integers, Sequences, FiniteSets, TLC

VARIABLES fn, args, result,
          pc, data, bMeasures, quants, quartiles, min_quant, max_quant,
          out, err

vars == <<fn, args, result,
          pc, data, bMeasures, quants, quartiles, min_quant, max_quant,
          out, err>>

apiVars == <<fn, args, result>>

mainVars == <<pc, data, bMeasures, quants, quartiles, min_quant, max_quant,
              out, err>>

(***************************************************************************)
(* Bounds of the model.                                                    *)
(***************************************************************************)
\* timestamps of a recording are 0..MaxTime (seconds)
MaxTime == 4
\* a recording has at most MaxLen timestamps
MaxLen == 4
\* a group (or a sample list) has 1..MaxTrials trials
MaxTrials == 2
\* values of a sample handed directly to calcCDFs are 0..MaxVal
MaxVal == 1
\* the samples of one call have at most MaxSampleLen values in all
MaxSampleLen == 2
\* bin edges handed directly to calcCDFs are 0..MaxEdge
MaxEdge == 2
\* and there are at most MaxBins of them
MaxBins == 2
\* calc_quants_quarts: stop of the bin range (maxPt), in units of binSize
MaxPt == 3

(***************************************************************************)
(* Program constants.                                                      *)
(***************************************************************************)
KINDS == <<"EKI", "WT">>

MEASURES == <<"burstDur", "cycleDur", "dutyCycle", "qI">>

\* markers for the outcome of a call that raised
ValueError == "ValueError"

AttributeError == "AttributeError"

IOError == "IOError"

None == "None"

(***************************************************************************)
(* float64 arithmetic.                                                     *)
(***************************************************************************)
Abs(n) == IF n < 0 THEN -n ELSE n

Sign(n) == IF n < 0 THEN -1 ELSE IF n > 0 THEN 1 ELSE 0

RECURSIVE GCD(_, _)
GCD(a, b) == IF b = 0 THEN a ELSE GCD(b, a % b)

\* the float with value n/d (d of any sign); x/0 is inf, -inf or nan
Frac(n, d) ==
    IF d = 0 THEN <<Sign(n), 0>>
    ELSE LET g == GCD(Abs(n), Abs(d))
             s == Sign(d)
         IN  <<(s * n) \div g, (s * d) \div g>>

float(i) == <<i, 1>>

NaN == <<0, 0>>

IsNaN(x) == x = NaN

IsFinite(x) == x[2] > 0

\* IEEE addition: nan absorbs, inf + -inf is nan
FAdd(x, y) ==
    IF IsFinite(x) /\ IsFinite(y) THEN Frac(x[1] * y[2] + y[1] * x[2], x[2] * y[2])
    ELSE IF IsNaN(x) \/ IsNaN(y) THEN NaN
    ELSE IF IsFinite(x) THEN y
    ELSE IF IsFinite(y) THEN x
    ELSE IF x = y THEN x ELSE NaN

FNeg(x) == <<-x[1], x[2]>>

FSub(x, y) == FAdd(x, FNeg(y))

\* IEEE multiplication: 0 * inf is nan
FMul(x, y) ==
    IF IsFinite(x) /\ IsFinite(y) THEN Frac(x[1] * y[1], x[2] * y[2])
    ELSE IF IsNaN(x) \/ IsNaN(y) THEN NaN
    ELSE <<Sign(x[1]) * Sign(y[1]), 0>>

\* IEEE division as numpy does it: x/0 does not raise
FDiv(x, y) ==
    IF IsFinite(x) /\ IsFinite(y) THEN Frac(x[1] * y[2], x[2] * y[1])
    ELSE IF IsNaN(x) \/ IsNaN(y) THEN NaN
    ELSE IF IsFinite(x) THEN float(0)
    ELSE IF IsFinite(y) THEN <<x[1] * (IF y[1] < 0 THEN -1 ELSE 1), 0>>
    ELSE NaN

\* x <= y; every comparison with nan is false
FLe(x, y) ==
    IF IsNaN(x) \/ IsNaN(y) THEN FALSE
    ELSE IF IsFinite(x) /\ IsFinite(y) THEN x[1] * y[2] <= y[1] * x[2]
    ELSE IF IsFinite(x) THEN y[1] > 0
    ELSE IF IsFinite(y) THEN x[1] < 0
    ELSE x[1] <= y[1]

\* x < y
FLt(x, y) == FLe(x, y) /\ x # y

(***************************************************************************)
(* numpy arrays.                                                           *)
(***************************************************************************)
\* sc.array(list of numbers)
array(s) == [i \in 1..Len(s) |-> float(s[i])]

\* s[0::2]
EvenSlice(s) == [i \in 1..((Len(s) + 1) \div 2) |-> s[2 * i - 1]]

\* s[1::2]
OddSlice(s) == [i \in 1..(Len(s) \div 2) |-> s[2 * i]]

\* a[:-1]
DropLast(a) == IF Len(a) = 0 THEN a ELSE SubSeq(a, 1, Len(a) - 1)

\* a[1:]
DropFirst(a) == IF Len(a) = 0 THEN a ELSE SubSeq(a, 2, Len(a))

\* outcome of a call: a returned value, or the exception it raised
Ok(v) == [exc |-> None, val |-> v]

Raise(e) == [exc |-> e, val |-> <<>>]

Raised(o) == o.exc # None

\* the binary operators applied to arrays: "-" and "/"
ApplyOp(op, x, y) == IF op = "-" THEN FSub(x, y) ELSE FDiv(x, y)

\* elementwise a op b with numpy broadcasting of 1-d arrays: equal lengths,
\* or one operand of length 1 stretched to the other; anything else raises
Elementwise(op, a, b) ==
    IF Len(a) = Len(b) THEN Ok([i \in 1..Len(a) |-> ApplyOp(op, a[i], b[i])])
    ELSE IF Len(a) = 1 THEN Ok([i \in 1..Len(b) |-> ApplyOp(op, a[1], b[i])])
    ELSE IF Len(b) = 1 THEN Ok([i \in 1..Len(a) |-> ApplyOp(op, a[i], b[1])])
    ELSE Raise(ValueError)

\* sc.diff(a)
diff(a) == [i \in 1..(IF Len(a) = 0 THEN 0 ELSE Len(a) - 1) |-> FSub(a[i + 1], a[i])]

(***************************************************************************)
(* burstAnalysis.calcBurstMeasures                                         *)
(***************************************************************************)
burstStart(datum) == array(EvenSlice(datum))

burstStop(datum) == array(OddSlice(datum))

\* burstDur = burstStop-burstStart
burstDur(datum) == Elementwise("-", burstStop(datum), burstStart(datum))

\* cycleDur = sc.diff(burstStart)
cycleDur(datum) == diff(burstStart(datum))

\* variant: burstDur[1:]/cycleDur, each cycle paired with the burst that ends it
dutyCycleOfNextBurst(datum) ==
    IF Raised(burstDur(datum)) THEN burstDur(datum)
    ELSE Elementwise("/", DropFirst(burstDur(datum).val), cycleDur(datum))

\* burstDur[:-1]/cycleDur
dutyCycle(datum) ==
    IF Raised(burstDur(datum)) THEN burstDur(datum)
    ELSE Elementwise("/", DropLast(burstDur(datum).val), cycleDur(datum))

\* burstStart[1:]-burstStop[:-1]
qI(datum) ==
    Elementwise("-", DropFirst(burstStart(datum)), DropLast(burstStop(datum)))

\* the four arrays appended for one datum, or the exception raised by the
\* first statement of the loop body that fails
measuresOf(datum) ==
    IF Raised(burstDur(datum)) THEN burstDur(datum)
    ELSE IF Raised(dutyCycle(datum)) THEN dutyCycle(datum)
    ELSE IF Raised(qI(datum)) THEN qI(datum)
    ELSE Ok([burstDur  |-> burstDur(datum).val,
             cycleDur  |-> cycleDur(datum),
             dutyCycle |-> dutyCycle(datum).val,
             qI        |-> qI(datum).val])

\* measures = {measure : [] ...}; for datum in data: append; return measures
RECURSIVE calcBurstMeasuresFrom(_, _)
calcBurstMeasuresFrom(dataList, measures) ==
    IF dataList = <<>> THEN Ok(measures)
    ELSE LET m == measuresOf(Head(dataList))
         IN  IF Raised(m) THEN m
             ELSE calcBurstMeasuresFrom(Tail(dataList),
                      [k \in DOMAIN measures |-> Append(measures[k], m.val[k])])

calcBurstMeasures(dataList) ==
    calcBurstMeasuresFrom(dataList,
        [burstDur |-> <<>>, cycleDur |-> <<>>, dutyCycle |-> <<>>, qI |-> <<>>])

(***************************************************************************)
(* burstAnalysis.calcCDFs                                                  *)
(***************************************************************************)
\* variant: len(sc.where(sample<point)[0])
RECURSIVE countLt(_, _)
countLt(sample, point) ==
    IF sample = <<>> THEN 0
    ELSE (IF FLt(Head(sample), point) THEN 1 ELSE 0) + countLt(Tail(sample), point)

\* variant: len(sc.where(sample>=point)[0])
RECURSIVE countGe(_, _)
countGe(sample, point) ==
    IF sample = <<>> THEN 0
    ELSE (IF FLe(point, Head(sample)) THEN 1 ELSE 0) + countGe(Tail(sample), point)

\* len(sc.where(sample<=point)[0])
RECURSIVE countLe(_, _)
countLe(sample, point) ==
    IF sample = <<>> THEN 0
    ELSE (IF FLe(Head(sample), point) THEN 1 ELSE 0) + countLe(Tail(sample), point)

\* one row: cdfs[i][j] = len(sc.where(sample<=point)[0])/nPts; numpy's
\* float64 division by nPts = 0.0 gives nan and does not raise
cdfRow(sample, binEdges) ==
    [j \in 1..Len(binEdges) |->
        FDiv(float(countLe(sample, binEdges[j])), float(Len(sample)))]

calcCDFs(sampleList, binEdges) ==
    [i \in 1..Len(sampleList) |-> cdfRow(sampleList[i], binEdges)]

\* testMonotonicIncrease: not len(find(diff(aRRay) < 0)) > 0
testMonotonicIncrease(aRRay) ==
    ~(Cardinality({i \in 1..Len(diff(aRRay)) : FLt(diff(aRRay)[i], float(0))}) > 0)

(***************************************************************************)
(* interface.py: CDFs of all measures, their trial average, and the        *)
(* quantile function scipy.interpolate.interp1d(means[k], binEdges).       *)
(***************************************************************************)
\* sc.arange(start, stop, step) for integers with step > 0
arange(start, stop, step) ==
    [i \in 1..(IF stop > start THEN (stop - start + step - 1) \div step ELSE 0)
        |-> float(start + (i - 1) * step)]

\* calc_all_CDF: cdfs[kind][measure] = calcCDFs(measures_data[kind][measure], binEdges)
calc_all_CDF(measures_data, binEdges) ==
    [kind \in {KINDS[i] : i \in 1..Len(KINDS)} |->
        [measure \in {MEASURES[i] : i \in 1..Len(MEASURES)} |->
            calcCDFs(measures_data[kind][measure], binEdges)]]

RECURSIVE columnSum(_, _)
columnSum(rows, j) ==
    IF rows = <<>> THEN float(0) ELSE FAdd(Head(rows)[j], columnSum(Tail(rows), j))

\* ndarray.mean(0) of a (trials x bins) matrix with at least one row
mean0(matrix) ==
    [j \in 1..Len(matrix[1]) |-> FDiv(columnSum(matrix, j), float(Len(matrix)))]

\* get_mean_CDF
get_mean_CDF(cdfs, specific) ==
    [kind \in DOMAIN cdfs |-> mean0(cdfs[kind][specific])]

\* position at which the pair p is inserted into the sorted prefix s so that
\* equal keys keep their order (nan sorts last)
RECURSIVE insertSorted(_, _)
insertSorted(s, p) ==
    IF s = <<>> THEN <<p>>
    ELSE IF FLt(p[1], Head(s)[1]) \/ (IsNaN(Head(s)[1]) /\ ~IsNaN(p[1]))
         THEN <<p>> \o s
         ELSE <<Head(s)>> \o insertSorted(Tail(s), p)

\* x[ind], y[ind] for ind = argsort(x), ties in input order, as a sequence
\* of <<x, y>> pairs
RECURSIVE sortPairs(_, _, _)
sortPairs(x, y, n) ==
    IF n = 0 THEN <<>>
    ELSE insertSorted(sortPairs(x, y, n - 1), <<x[n], y[n]>>)

\* the two ways a scipy build evaluates a linear interp1d: the
\* searchsorted-based interp1d._call_linear, and (builds that delegate
\* 1-d linear interpolation) numpy.interp
LinearCalls == {"call_linear", "call_linear_np"}

\* interp1d(x, y): the default kind='linear', bounds_error on, x sorted first
interp1d(x, y, call) ==
    IF Len(x) # Len(y) \/ Len(x) < 2 THEN Raise(ValueError)
    ELSE LET s == sortPairs(x, y, Len(x))
         IN  Ok([x    |-> [i \in 1..Len(s) |-> s[i][1]],
                 y    |-> [i \in 1..Len(s) |-> s[i][2]],
                 call |-> call])

\* variant: only x_new < x[0] is out of bounds
belowBounds(f, x_new) == FLt(x_new, f.x[1])

\* interp1d._check_bounds: x_new < x[0] or x_new > x[-1]
outOfBounds(f, x_new) == FLt(x_new, f.x[1]) \/ FLt(f.x[Len(f.x)], x_new)

\* numpy.searchsorted(x, x_new): number of entries of x below x_new
searchsorted(x, x_new) == Cardinality({i \in 1..Len(x) : FLt(x[i], x_new)})

clip(i, lo, hi) == IF i < lo THEN lo ELSE IF i > hi THEN hi ELSE i

\* interp1d._call_linear: slope*(x_new - x_lo) + y_lo between the
\* neighbours found by searchsorted (0-based hi index, clipped to 1..n-1)
call_linear(f, x_new) ==
    LET hi    == clip(searchsorted(f.x, x_new), 1, Len(f.x) - 1) + 1
        lo    == hi - 1
        slope == FDiv(FSub(f.y[hi], f.y[lo]), FSub(f.x[hi], f.x[lo]))
    IN  FAdd(FMul(slope, FSub(x_new, f.x[lo])), f.y[lo])

\* numpy.interp(x_new, x, y) for x[0] <= x_new <= x[-1]: j is the last
\* index with x[j] <= x_new
call_linear_np(f, x_new) ==
    LET below == {i \in 1..Len(f.x) : FLe(f.x[i], x_new)}
        j     == IF below = {} THEN 1 ELSE CHOOSE i \in below : \A k \in below : k <= i
        slope == FDiv(FSub(f.y[j + 1], f.y[j]), FSub(f.x[j + 1], f.x[j]))
    IN  IF j = Len(f.x) \/ f.x[j] = x_new THEN f.y[j]
        ELSE FAdd(FMul(slope, FSub(x_new, f.x[j])), f.y[j])

\* f(x_new) for a scalar x_new
evaluate(f, x_new) ==
    IF outOfBounds(f, x_new) THEN Raise(ValueError)
    ELSE IF f.call = "call_linear" THEN Ok(call_linear(f, x_new))
    ELSE Ok(call_linear_np(f, x_new))

\* f(x_new) for an array x_new: any element out of bounds raises
evaluateArray(f, x_new) ==
    IF \E i \in 1..Len(x_new) : Raised(evaluate(f, x_new[i])) THEN Raise(ValueError)
    ELSE Ok([i \in 1..Len(x_new) |-> evaluate(f, x_new[i]).val])

\* sc.arange(0.25, 1.00, 0.25)
QuartilePs == <<Frac(1, 4), Frac(1, 2), Frac(3, 4)>>

EmptyDict == [k \in {} |-> None]

\* {k : outcomes[k] for k in KINDS} built kind by kind: the dictionary, or
\* the exception raised for the first kind that fails (with that kind)
RECURSIVE dictOverKinds(_, _, _)
dictOverKinds(outcomes, i, acc) ==
    IF i > Len(KINDS) THEN Ok(acc)
    ELSE IF Raised(outcomes[KINDS[i]]) THEN [exc |-> outcomes[KINDS[i]].exc, val |-> KINDS[i]]
    ELSE dictOverKinds(outcomes, i + 1, acc @@ (KINDS[i] :> outcomes[KINDS[i]].val))

\* calc_quants_quarts(measures_data, specific, binSize, maxPt)
calc_quants_quarts(measures_data, specific, binSize, maxPt, call) ==
    LET binEdges == arange(0, maxPt, binSize)
        cdfs     == calc_all_CDF(measures_data, binEdges)
        means    == get_mean_CDF(cdfs, specific)
        qs       == dictOverKinds([k \in DOMAIN means |-> interp1d(means[k], binEdges, call)],
                                  1, EmptyDict)
        qr       == dictOverKinds([k \in DOMAIN means |-> evaluateArray(qs.val[k], QuartilePs)],
                                  1, EmptyDict)
    IN  IF Raised(qs) THEN qs
        ELSE IF Raised(qr) THEN qr
        ELSE Ok([quants |-> qs.val, quartiles |-> qr.val])

\* get_min_max_quants(quants)
get_min_max_quants(qs) ==
    LET mins == dictOverKinds([k \in DOMAIN qs |-> evaluate(qs[k], Frac(1, 100))], 1, EmptyDict)
        maxs == dictOverKinds([k \in DOMAIN qs |-> evaluate(qs[k], float(1))], 1, EmptyDict)
    IN  IF Raised(mins) THEN mins
        ELSE IF Raised(maxs) THEN maxs
        ELSE Ok([min_quants |-> mins.val, max_quants |-> maxs.val])

\* calc_measure_data(data): {k : calcBurstMeasures(v) for k,v in data.items()}
calc_measure_data(d) ==
    dictOverKinds([k \in DOMAIN d |-> calcBurstMeasures(d[k])], 1, EmptyDict)

(***************************************************************************)
(* Inputs.                                                                 *)
(***************************************************************************)
SeqsUpTo(S, n) == UNION {[1..k -> S] : k \in 0..n}

\* one to MaxTrials elements of S
Lists(S) == UNION {[1..k -> S] : k \in 1..MaxTrials}

\* recordings over the timestamps T: up to MaxLen timestamps in any order,
\* the clock starting at the first event (the measures are differences)
RecordingsOver(T) ==
    {<<>>} \cup {<<0>> \o t : t \in SeqsUpTo(T, MaxLen - 1)}

Recordings == RecordingsOver(0..MaxTime)

\* lists of exactly k sequences of S with at most budget elements in all
RECURSIVE ListsWithin(_, _, _)
ListsWithin(S, k, budget) ==
    IF k = 0 THEN {<<>>}
    ELSE UNION {{<<r>> \o d : d \in ListsWithin(S, k - 1, budget - Len(r))} :
                    r \in {q \in S : Len(q) <= budget}}

\* the recording of the documented example of the measures
ExampleRecording == <<0, 2, 5, 7, 10, 12>>

\* the data handed to calcBurstMeasures: one to MaxTrials recordings with
\* at most MaxLen timestamps in all, or the documented example
DataLists ==
    UNION {ListsWithin(Recordings, k, MaxLen) : k \in 1..MaxTrials}
        \cup {<<ExampleRecording>>}

StrictlyIncreasing(t) == \A i \in 1..(Len(t) - 1) : t[i] < t[i + 1]

\* the recordings of the two CSV files: complete start/stop pairs in
\* order, of one burst that lasts 1 or 2, or of a burst that lasts 1 and a
\* burst that lasts MaxPt, which is beyond the last bin edge
WellFormed == {<<0, 1>>, <<0, 2>>, <<0, 1, 2, MaxPt + 2>>}

Samples == SeqsUpTo(0..MaxVal, MaxSampleLen)

EdgeSeqs == SeqsUpTo(0..MaxEdge, MaxBins)

\* the documented example of a CDF: sample [1.5, 2.5, 4.5] over the bin
\* edges [1, 2, 3, 4, 5]
ExampleCDFArgs ==
    [sampleList |-> << <<Frac(3, 2), Frac(5, 2), Frac(9, 2)>> >>,
     binEdges   |-> array(<<1, 2, 3, 4, 5>>)]

\* the arguments handed to calcCDFs: one to MaxTrials samples and a sequence
\* of bin edges in any order, as arrays, or the documented example
CDFArgs ==
    {[sampleList |-> [i \in 1..Len(sl) |-> array(sl[i])], binEdges |-> array(e)] :
        sl \in UNION {ListsWithin(Samples, k, MaxSampleLen) : k \in 1..MaxTrials},
        e \in EdgeSeqs} \cup {ExampleCDFArgs}

KindSet == {KINDS[i] : i \in 1..Len(KINDS)}

(***************************************************************************)
(* Calls of the library functions (burstAnalysis.py is used as a library   *)
(* by interface.py and from the notebook).                                 *)
(***************************************************************************)
ApiInit ==
    /\ fn = None
    /\ args = None
    /\ result = None

MainIdle ==
    /\ pc = None
    /\ data = None
    /\ bMeasures = None
    /\ quants = None
    /\ quartiles = None
    /\ min_quant = None
    /\ max_quant = None
    /\ out = <<>>
    /\ err = None

Init == ApiInit /\ MainIdle

\* one call per behaviour: fn = None until the call is made
CallCalcBurstMeasures ==
    /\ fn = None
    /\ \E d \in DataLists :
        /\ fn' = "calcBurstMeasures"
        /\ args' = [data |-> d]
        /\ result' = calcBurstMeasures(d)
        /\ UNCHANGED mainVars

CallCalcCDFs ==
    /\ fn = None
    /\ \E a \in CDFArgs :
        /\ fn' = "calcCDFs"
        /\ args' = a
        /\ result' = Ok(calcCDFs(a.sampleList, a.binEdges))
        /\ UNCHANGED mainVars

Next == CallCalcBurstMeasures \/ CallCalcCDFs

Spec == Init /\ [][Next]_vars

(***************************************************************************)
(* main.py: one run of main().  pc is the line of main about to run.       *)
(***************************************************************************)
MainInit ==
    /\ ApiInit
    /\ pc = "L13"
    /\ data = None
    /\ bMeasures = None
    /\ quants = None
    /\ quartiles = None
    /\ min_quant = None
    /\ max_quant = None
    /\ out = <<>>
    /\ err = None

\* an uncaught exception: traceback on the error stream, exit status 1
Fail(exc, line, kind) ==
    /\ pc' = "failed"
    /\ err' = [exc |-> exc, line |-> line, kind |-> kind]

\* line 13: readRecordings.readSMR() reads and plots a recording file
ReadSMR ==
    /\ pc = "L13"
    /\ \/ pc' = "L14" /\ UNCHANGED err
       \/ Fail(IOError, 13, None)
    /\ UNCHANGED <<apiVars, data, bMeasures, quants, quartiles, min_quant, max_quant, out>>

\* line 14: readRecordings.readABF()
ReadABF ==
    /\ pc = "L14"
    /\ \/ pc' = "L16" /\ UNCHANGED err
       \/ Fail(IOError, 14, None)
    /\ UNCHANGED <<apiVars, data, bMeasures, quants, quartiles, min_quant, max_quant, out>>

\* lines 15-16: data = interface.load_data(csvFiles)
LoadData ==
    /\ pc = "L16"
    /\ \/ \E d \in [KindSet -> Lists(WellFormed)] :
            /\ data' = d
            /\ pc' = "L17"
            /\ UNCHANGED err
       \/ Fail(IOError, 16, None) /\ UNCHANGED data
    /\ UNCHANGED <<apiVars, bMeasures, quants, quartiles, min_quant, max_quant, out>>

\* line 17: bMeasures = interface.calc_measure_data(data)
CalcMeasureData ==
    /\ pc = "L17"
    /\ LET o == calc_measure_data(data)
       IN  IF Raised(o)
           THEN Fail(o.exc, 17, o.val) /\ UNCHANGED bMeasures
           ELSE bMeasures' = o.val /\ pc' = "L18" /\ UNCHANGED err
    /\ UNCHANGED <<apiVars, data, quants, quartiles, min_quant, max_quant, out>>

\* line 18: quants, quartiles = interface.calc_quants_quarts(bMeasures, "burstDur")
\* with the defaults binSize (the unit of time of the model) and maxPt
CalcQuantsQuarts ==
    /\ pc = "L18"
    /\ \E call \in LinearCalls :
         LET o == calc_quants_quarts(bMeasures, "burstDur", 1, MaxPt, call)
         IN  IF Raised(o)
             THEN Fail(o.exc, 18, o.val) /\ UNCHANGED <<quants, quartiles>>
             ELSE /\ quants' = o.val.quants
                  /\ quartiles' = o.val.quartiles
                  /\ pc' = "L19"
                  /\ UNCHANGED err
    /\ UNCHANGED <<apiVars, data, bMeasures, min_quant, max_quant, out>>

\* line 19: min_quant, max_quant = interface.get_min_max_quants(quants)
GetMinMaxQuants ==
    /\ pc = "L19"
    /\ LET o == get_min_max_quants(quants)
       IN  IF Raised(o)
           THEN Fail(o.exc, 19, o.val) /\ UNCHANGED <<min_quant, max_quant>>
           ELSE /\ min_quant' = o.val.min_quants
                /\ max_quant' = o.val.max_quants
                /\ pc' = "L20"
                /\ UNCHANGED err
    /\ UNCHANGED <<apiVars, data, bMeasures, quants, quartiles, out>>

\* what a print function writes: one section per kind
printed(what) == [i \in 1..Len(KINDS) |-> <<what, KINDS[i]>>]

\* line 20: interface.print_data(data)
PrintData ==
    /\ pc = "L20"
    /\ out' = out \o printed("data")
    /\ pc' = "L21"
    /\ UNCHANGED <<apiVars, data, bMeasures, quants, quartiles, min_quant, max_quant, err>>

\* line 21: interface.print_specific(bMeasures, "burstDur")
PrintSpecific ==
    /\ pc = "L21"
    /\ out' = out \o printed("burstDur")
    /\ pc' = "L22"
    /\ UNCHANGED <<apiVars, data, bMeasures, quants, quartiles, min_quant, max_quant, err>>

\* line 22: interface.print_all_specific(bMeasures)
PrintAllSpecific ==
    /\ pc = "L22"
    /\ out' = out \o printed(MEASURES[1]) \o printed(MEASURES[2])
                  \o printed(MEASURES[3]) \o printed(MEASURES[4])
    /\ pc' = "L23"
    /\ UNCHANGED <<apiVars, data, bMeasures, quants, quartiles, min_quant, max_quant, err>>

\* line 23: interface.print_quants_quartiles(quartiles, min_quant, max_quant)
PrintQuantsQuartiles ==
    /\ pc = "L23"
    /\ out' = out \o printed("quants_quartiles")
    /\ pc' = "L24"
    /\ UNCHANGED <<apiVars, data, bMeasures, quants, quartiles, min_quant, max_quant, err>>

\* line 24: print(interface.quant_statistical_comparisons(quants)); the
\* module interface defines no quant_statistical_comparisons, so the
\* attribute lookup raises and lines 25-29 are never run
QuantStatisticalComparisons ==
    /\ pc = "L24"
    /\ Fail(AttributeError, 24, None)
    /\ UNCHANGED <<apiVars, data, bMeasures, quants, quartiles, min_quant, max_quant, out>>

MainNext ==
    \/ ReadSMR
    \/ ReadABF
    \/ LoadData
    \/ CalcMeasureData
    \/ CalcQuantsQuarts
    \/ GetMinMaxQuants
    \/ PrintData
    \/ PrintSpecific
    \/ PrintAllSpecific
    \/ PrintQuantsQuartiles
    \/ QuantStatisticalComparisons

MainSpec == MainInit /\ [][MainNext]_vars

(***************************************************************************)
(* Properties.                                                             *)
(***************************************************************************)
Range(f) == {f[i] : i \in DOMAIN f}

\* a recording of complete start/stop pairs in order, with at least one pair
WellFormedTrial(t) == Len(t) >= 2 /\ Len(t) % 2 = 0 /\ StrictlyIncreasing(t)

\* the value x is the quotient n/d of two integers
IsQuotient(x, n, d) == x[2] > 0 /\ x[1] * d = x[2] * n

\* C1: for a recording t of n timestamps, n even, strictly increasing,
\* calcBurstMeasures returns for that trial burstDur of length n/2 with
\* burstDur[i] = t[2i+1] - t[2i], and cycleDur, dutyCycle, qI of length
\* n/2 - 1 with cycleDur[i] = t[2i+2] - t[2i], qI[i] = t[2i+2] - t[2i+1],
\* dutyCycle[i] = burstDur[i] / cycleDur[i] (indices from 0); the call
\* returns when every recording of the data is such a recording; and
\* [0,2,5,7,10,12] gives [2,2,2], [5,5], [0.4,0.4], [3,3].
C1_TrialMeasures(t, i, m) ==
    LET n == Len(t)
    IN  /\ Len(m.burstDur[i]) = n \div 2
        /\ Len(m.cycleDur[i]) = n \div 2 - 1
        /\ Len(m.dutyCycle[i]) = n \div 2 - 1
        /\ Len(m.qI[i]) = n \div 2 - 1
        /\ \A k \in 1..(n \div 2) :
              m.burstDur[i][k] = float(t[2 * k] - t[2 * k - 1])
        /\ \A k \in 1..(n \div 2 - 1) :
              /\ m.cycleDur[i][k] = float(t[2 * k + 1] - t[2 * k - 1])
              /\ m.qI[i][k] = float(t[2 * k + 1] - t[2 * k])
              /\ IsQuotient(m.dutyCycle[i][k],
                            t[2 * k] - t[2 * k - 1], t[2 * k + 1] - t[2 * k - 1])

C1_Example ==
    args.data = <<ExampleRecording>> =>
        /\ ~Raised(result)
        /\ result.val.burstDur = << <<float(2), float(2), float(2)>> >>
        /\ result.val.cycleDur = << <<float(5), float(5)>> >>
        /\ result.val.dutyCycle = << <<Frac(2, 5), Frac(2, 5)>> >>
        /\ result.val.qI = << <<float(3), float(3)>> >>

C1_BurstMeasures ==
    fn = "calcBurstMeasures" =>
        /\ C1_Example
        /\ (\A i \in 1..Len(args.data) : WellFormedTrial(args.data[i]))
              => ~Raised(result)
        /\ ~Raised(result) =>
              \A i \in 1..Len(args.data) :
                  WellFormedTrial(args.data[i])
                      => C1_TrialMeasures(args.data[i], i, result.val)

\* C1 witness: a call returned the measures of a well-formed recording of
\* two bursts of different durations
C1_Witness ==
    /\ fn = "calcBurstMeasures"
    /\ ~Raised(result)
    /\ \E i \in 1..Len(args.data) :
          /\ WellFormedTrial(args.data[i])
          /\ Len(args.data[i]) = 4
          /\ result.val.burstDur[i][1] # result.val.burstDur[i][2]

\* the number of values of sample s that are <= edge
CountAtMost(s, edge) == Cardinality({k \in 1..Len(s) : FLe(s[k], edge)})

\* entry [i][j] = count(sample_i <= binEdges[j]) / len(sample_i), one row
\* per sample and one column per bin edge
C2_Entries ==
    /\ ~Raised(result)
    /\ Len(result.val) = Len(args.sampleList)
    /\ \A i \in 1..Len(args.sampleList) :
          /\ Len(result.val[i]) = Len(args.binEdges)
          /\ \A j \in 1..Len(args.binEdges) :
                IsQuotient(result.val[i][j],
                           CountAtMost(args.sampleList[i], args.binEdges[j]),
                           Len(args.sampleList[i]))

NonEmptySamples == \A i \in 1..Len(args.sampleList) : Len(args.sampleList[i]) > 0

\* C2 as stated: for non-empty samples and any bin edges, calcCDFs returns
\* one row per sample and one column per bin edge, entry [i][j] being the
\* number of values of sample i that are <= binEdges[j] divided by the
\* number of values of sample i; edges [1,2,3,4,5] over [1.5, 2.5, 4.5]
\* give the row [0, 1/3, 1/3, 2/3, 1].
C2_Original ==
    (fn = "calcCDFs" /\ NonEmptySamples) =>
        /\ C2_Entries
        /\ args = ExampleCDFArgs =>
              result.val = << <<float(0), Frac(1, 3), Frac(1, 3), Frac(2, 3), float(1)>> >>

\* C2 amended: the same matrix of counts over lengths; edges [1,2,3,4,5]
\* over [1.5, 2.5, 4.5] give the row [0, 1/3, 2/3, 2/3, 1] (two of the
\* three values are <= 3).
C2_Amended ==
    (fn = "calcCDFs" /\ NonEmptySamples) =>
        /\ C2_Entries
        /\ args = ExampleCDFArgs =>
              result.val = << <<float(0), Frac(1, 3), Frac(2, 3), Frac(2, 3), float(1)>> >>

\* C2 witness: calcCDFs has returned the matrix of the documented example
C2_Witness ==
    /\ fn = "calcCDFs"
    /\ args = ExampleCDFArgs
    /\ ~Raised(result)

NonDecreasing(row) == \A j \in 1..(Len(row) - 1) : FLe(row[j], row[j + 1])

InUnitInterval(row) ==
    \A j \in 1..Len(row) : FLe(float(0), row[j]) /\ FLe(row[j], float(1))

\* C3 as stated: every row calcCDFs produces for a non-empty sample is
\* non-decreasing along the bin axis and lies in [0,1], for any bin-edge
\* sequence passed in.
C3_Original ==
    (fn = "calcCDFs" /\ NonEmptySamples)
        => \A i \in 1..Len(result.val) :
              NonDecreasing(result.val[i]) /\ InUnitInterval(result.val[i])

\* C3 amended: every row for a non-empty sample lies in [0,1] for any
\* bin-edge sequence, and is non-decreasing along the bin axis (so that
\* testMonotonicIncrease reports it non-decreasing) when the bin edges
\* passed in are themselves non-decreasing.
C3_Amended ==
    (fn = "calcCDFs" /\ NonEmptySamples)
        => \A i \in 1..Len(result.val) :
              /\ InUnitInterval(result.val[i])
              /\ (\A j \in 1..(Len(args.binEdges) - 1) :
                      FLe(args.binEdges[j], args.binEdges[j + 1]))
                  => NonDecreasing(result.val[i]) /\ testMonotonicIncrease(result.val[i])

\* C3 witness: non-decreasing bin edges and a non-empty sample whose row
\* rises from one bin edge to the next
C3_Witness ==
    /\ fn = "calcCDFs"
    /\ NonEmptySamples
    /\ Len(args.binEdges) >= 2
    /\ \A j \in 1..(Len(args.binEdges) - 1) : FLe(args.binEdges[j], args.binEdges[j + 1])
    /\ \E i \in 1..Len(result.val) : \E j \in 1..(Len(result.val[i]) - 1) :
          FLt(result.val[i][j], result.val[i][j + 1])

\* C5 as stated: when a recording's timestamps are not strictly increasing,
\* calcBurstMeasures fails with MalformedRecordingError and returns no
\* measure values.
C5_Original ==
    (fn = "calcBurstMeasures"
        /\ \E i \in 1..Len(args.data) : ~StrictlyIncreasing(args.data[i]))
        => result.exc = "MalformedRecordingError"

\* C6 as stated: when a sample passed to calcCDFs is empty, the call fails
\* with EmptySampleError instead of returning a row computed by dividing by
\* a zero length.
C6_Original ==
    (fn = "calcCDFs" /\ ~NonEmptySamples /\ Len(args.binEdges) > 0)
        => result.exc = "EmptySampleError"

\* C9 as stated: for a recording with an odd number n of timestamps (in
\* order), calcBurstMeasures succeeds and burstDur has exactly (n-1)/2
\* entries, burstDur[i] = t[2i+1] - t[2i] for each complete pair.
C9_Original ==
    (fn = "calcBurstMeasures"
        /\ \A i \in 1..Len(args.data) : StrictlyIncreasing(args.data[i]))
        => /\ ~Raised(result)
           /\ \A i \in 1..Len(args.data) :
                 LET t == args.data[i]
                 IN  Len(t) % 2 = 1 =>
                        /\ Len(result.val.burstDur[i]) = (Len(t) - 1) \div 2
                        /\ \A k \in 1..((Len(t) - 1) \div 2) :
                              result.val.burstDur[i][k] = float(t[2 * k] - t[2 * k - 1])

(***************************************************************************)
(* Properties of a run of main().                                          *)
(***************************************************************************)
\* main has passed line 18, 19: the values these lines assign exist
QuantsAssigned ==
    pc \in {"L19", "L20", "L21", "L22", "L23", "L24"}
        \/ (pc = "failed" /\ err.line >= 19)

MinMaxAssigned ==
    pc \in {"L20", "L21", "L22", "L23", "L24"}
        \/ (pc = "failed" /\ err.line >= 20)

\* the trial-averaged CDF of burstDur of group k over the bin edges of
\* calc_quants_quarts
AvgCDF(k) ==
    LET a == get_mean_CDF(calc_all_CDF(bMeasures, arange(0, MaxPt, 1)), "burstDur")[k]
    IN  SubSeq(a, 1, Len(a))

\* p lies in [min(avgCDF), max(avgCDF)] of group k
InDomain(k, p) ==
    LET a == AvgCDF(k)
    IN  /\ \E j \in 1..Len(a) : FLe(a[j], p)
        /\ \E j \in 1..Len(a) : FLe(p, a[j])

\* the probabilities main asks for, the values of the averaged CDF, and the
\* points halfway between consecutive values and beyond both ends
Probes(k) ==
    LET a == AvgCDF(k)
    IN  Range(QuartilePs) \cup {Frac(1, 100), float(1)} \cup Range(a)
            \cup {FDiv(FAdd(a[j], a[j + 1]), float(2)) : j \in 1..(Len(a) - 1)}
            \cup {FSub(a[1], Frac(1, 8)), FAdd(a[Len(a)], Frac(1, 8))}

\* C4 as stated: the quantile function built for a group from its averaged
\* CDF, flat regions included, is non-decreasing: quantile(p1) <=
\* quantile(p2) for all p1 <= p2 inside [min(avgCDF), max(avgCDF)], and the
\* returned quartiles satisfy q1 <= q2 <= q3.
C4_Original ==
    QuantsAssigned =>
        \A k \in KindSet :
            /\ \A p1, p2 \in Probes(k) :
                  (InDomain(k, p1) /\ InDomain(k, p2) /\ FLe(p1, p2))
                      => FLe(evaluate(quants[k], p1).val, evaluate(quants[k], p2).val)
            /\ FLe(quartiles[k][1], quartiles[k][2])
            /\ FLe(quartiles[k][2], quartiles[k][3])

\* C7: a query at p outside [min(avgCDF), max(avgCDF)] raises and returns
\* no value: for any p asked of the quantile functions main holds; main
\* holds quartiles only if 0.25, 0.50 and 0.75 are inside the range for
\* both groups, and min/max quantiles only if 0.01 and 1.0 are; a failure
\* of line 18 or 19 is the ValueError of interp1d.
C7_OutOfDomainFails ==
    /\ QuantsAssigned =>
          \A k \in KindSet :
              /\ \A p \in Probes(k) :
                    ~InDomain(k, p) => Raised(evaluate(quants[k], p))
              /\ \A i \in 1..Len(QuartilePs) : InDomain(k, QuartilePs[i])
    /\ MinMaxAssigned =>
          \A k \in KindSet : InDomain(k, Frac(1, 100)) /\ InDomain(k, float(1))
    /\ (pc = "failed" /\ err.line \in {18, 19}) =>
          /\ err.exc = ValueError
          /\ \E p \in Range(QuartilePs) \cup {Frac(1, 100), float(1)} :
                ~InDomain(err.kind, p)

\* C7 witness: line 19 failed on p = 1.0 for a group whose averaged CDF
\* never reaches 1 (a burst lasts beyond the last bin edge) although its
\* quartiles exist
C7_Witness ==
    /\ pc = "failed"
    /\ err.line = 19
    /\ ~InDomain(err.kind, float(1))
    /\ InDomain(err.kind, Frac(3, 4))

\* every query main makes for group k is inside the range of its averaged CDF
Computable(k) ==
    \A p \in Range(QuartilePs) \cup {Frac(1, 100), float(1)} : InDomain(k, p)

\* C8 as stated: a failure while processing one group does not abort the
\* batch: the pipeline still produces (prints) the results of every
\* remaining group whose own computation succeeds.
C8_Original ==
    (pc = "failed" /\ err.line \in {17, 18, 19}) =>
        \A k \in KindSet \ {err.kind} :
            Computable(k) => <<"quants_quartiles", k>> \in Range(out)

\* C10 as stated: when loading, measure extraction, CDF building and
\* quantile computation all succeed, main goes on through the printing to
\* the plotting and terminates successfully: a run that fails has failed in
\* one of the loading or computing lines 13-19.
C10_Original ==
    pc = "failed" => err.line \in {13, 14, 16, 17, 18, 19}

====
